---- MODULE Spec2Model ----
(***************************************************************************)
(* ZipReader (src/lib/zip_reader.ts): a ZIP table-of-contents reader that  *)
(* works over HTTP range requests.  The remote archive is modelled at byte *)
(* level; the handle's state is fileSize, and the caller holds the entry   *)
(* list returned by readTableOfContents.  Each public method is one action *)
(* (its awaits are not interleaved with other calls).                      *)
(***************************************************************************)
EXTENDS Integers, Sequences, FiniteSets, TLC

(***************************************************************************)
(* Bounds of the model.                                                    *)
(***************************************************************************)
\* largest number of Central Directory entries of a modelled archive
MaxEntries == 2

(***************************************************************************)
(* Program constants.                                                      *)
(***************************************************************************)
\* findEOCD: const maxCommentLength = 65535
maxCommentLength == 65535
\* findEOCD: "22 is the EOCD record size"
EOCDSize == 22
\* parseCentralDirEntry: const entrySize = 46 + ...
CentralHeaderSize == 46
\* calculateFileDataOffset: const headerSize = 30
headerSize == 30
\* FileEntry.dataOffset: number | undefined; a field that was never assigned
Undefined == -1
\* the constructor's this.fileSize = 0
InitialFileSize == 0

(***************************************************************************)
(* Bytes.  DataView.getUint16/getUint32 with littleEndian = true.          *)
(***************************************************************************)
LE16(n) == << n % 256, (n \div 256) % 256 >>

LE32(n) == << n % 256, (n \div 256) % 256, (n \div 65536) % 256, (n \div 16777216) % 256 >>

RECURSIVE Flatten(_)
Flatten(ss) == IF ss = << >> THEN << >> ELSE Head(ss) \o Flatten(Tail(ss))

Fill(n, b) == [i \in 1..n |-> b]

RECURSIVE SumTo(_, _)
SumTo(f, n) == IF n = 0 THEN 0 ELSE f[n] + SumTo(f, n - 1)

SetMax(S) == CHOOSE x \in S : \A y \in S : y <= x

Min(a, b) == IF a < b THEN a ELSE b

(***************************************************************************)
(* The remote archives.  An archive is [size, data]: data maps the byte    *)
(* positions that hold a non-zero-filled byte to their value, every other  *)
(* position below size holds 0 (a 65535-byte comment stays a small value). *)
(***************************************************************************)
ByteAt(a, p) == IF p \in DOMAIN a.data THEN a.data[p] ELSE 0

\* The members an archive is made of: the file name as UTF-8 bytes, the stored
\* size, and the lengths of the extra field and the comment of the Central
\* Directory entry.
\*   1 "a.jpg"   2 "d/"   3 e-acute, U+1F600, ".png" (C3 A9 F0 9F 98 80 ...)   4 "E.PNG"
NamePool ==
    << [name |-> <<97, 46, 106, 112, 103>>, csize |-> 3, extra |-> 0, comment |-> 0],
       [name |-> <<100, 47>>, csize |-> 0, extra |-> 0, comment |-> 0],
       [name |-> <<195, 169, 240, 159, 152, 128, 46, 112, 110, 103>>,
        csize |-> 2, extra |-> 2, comment |-> 0],
       [name |-> <<69, 46, 80, 78, 71>>, csize |-> 0, extra |-> 0, comment |-> 1] >>

\* the n members of an archive: member i is pool item ((i + rot - 1) mod 4) + 1
Members(n, rot) == [i \in 1..n |-> NamePool[((i + rot - 1) % Len(NamePool)) + 1]]

LocalFileHeader(m) ==
    <<80, 75, 3, 4>> \o Fill(14, 0) \o LE32(m.csize) \o LE32(m.csize)
        \o LE16(Len(m.name)) \o LE16(0)

LocalRecord(m) == LocalFileHeader(m) \o m.name \o Fill(m.csize, 7)

CentralSignature(ok) == IF ok THEN <<80, 75, 1, 2>> ELSE <<80, 75, 1, 3>>

CentralRecord(m, localHeaderOffset, sigOk) ==
    CentralSignature(sigOk) \o Fill(16, 0) \o LE32(m.csize) \o LE32(m.csize)
        \o LE16(Len(m.name)) \o LE16(m.extra) \o LE16(m.comment) \o Fill(8, 0)
        \o LE32(localHeaderOffset) \o m.name \o Fill(m.extra, 1) \o Fill(m.comment, 2)

EOCDRecord(count, cdSize, cdOffset, commentLength) ==
    <<80, 75, 5, 6>> \o LE16(0) \o LE16(0) \o LE16(count) \o LE16(count)
        \o LE32(cdSize) \o LE32(cdOffset) \o LE16(commentLength)

\* The defects an archive of the model can carry, one at a time; "none" is a
\* well-formed archive.
Defects == {"none", "corrupt", "sizeBig", "countBig", "offsetBig", "forgedEarly", "forgedLate"}

\* The resources that are no archive: no byte, the four signature bytes alone,
\* 30 bytes of filler.
RawKinds == {"rawEmpty", "rawSignature", "rawFiller"}

\* A ZIP archive of n stored members, an EOCD comment of commentLength zero
\* bytes and one defect; bad is the position of the Central Directory entry
\* whose signature is corrupted (defect "corrupt"), 0 otherwise.
MkArchive(n, rot, commentLength, defect, bad) ==
    LET ms       == Members(n, rot)
        locals   == [i \in 1..n |-> LocalRecord(ms[i])]
        lsize    == [i \in 1..n |-> Len(locals[i])]
        lho      == [i \in 1..n |-> SumTo(lsize, i - 1)]
        centrals == [i \in 1..n |-> CentralRecord(ms[i], lho[i], i # bad)]
        csize    == [i \in 1..n |-> Len(centrals[i])]
        cdOffset == SumTo(lsize, n)
        cdSize   == SumTo(csize, n)
        eocd     == EOCDRecord(IF defect = "countBig" THEN n + 1 ELSE n,
                               IF defect = "sizeBig" THEN cdSize + 100 ELSE cdSize,
                               IF defect = "offsetBig" THEN cdOffset + 100000 ELSE cdOffset,
                               commentLength)
        lit      == Flatten(locals) \o Flatten(centrals) \o eocd
        size     == Len(lit) + commentLength
        \* a comment that holds the four signature bytes as data
        forgedAt == CASE defect = "forgedEarly" -> {Len(lit) + 10}
                      [] defect = "forgedLate"  -> {size - 10}
                      [] OTHER -> {}
        forged   == UNION {{p, p + 1, p + 2, p + 3} : p \in forgedAt}
    IN  [size |-> size,
         data |-> [p \in (0..(Len(lit) - 1)) \cup forged |->
                     IF p < Len(lit) THEN lit[p + 1]
                     ELSE LET q == CHOOSE q \in forgedAt : p \in q..(q + 3)
                          IN  <<80, 75, 5, 6>>[p - q + 1]],
         \* how the archive was built (ground truth for the properties)
         members |-> ms, lho |-> lho, eocdAt |-> Len(lit) - EOCDSize]

\* a resource that is no archive: raw bytes
RawResource(bytes) ==
    [size |-> Len(bytes), data |-> [p \in 0..(Len(bytes) - 1) |-> bytes[p + 1]],
     members |-> << >>, lho |-> << >>, eocdAt |-> 0]

RawBytes(kind) ==
    CASE kind = "rawEmpty" -> << >>
      [] kind = "rawSignature" -> <<80, 75, 5, 6>>
      [] kind = "rawFiller" -> Fill(30, 9)

\* A resource is named by how it is built: n members starting at pool item
\* rot + 1, the EOCD comment length, the defect, the corrupted entry.
Descriptor(n, rot, commentLength, defect, bad) ==
    [n |-> n, rot |-> rot, commentLength |-> commentLength, defect |-> defect, bad |-> bad]

Applicable(d) ==
    /\ d.bad <= d.n
    /\ (d.n = 0) => (d.rot = 0)
    /\ (d.defect = "corrupt") <=> (d.bad >= 1)
    /\ (d.defect \in {"forgedEarly", "forgedLate"}) => (d.commentLength = maxCommentLength)

Descriptors ==
    { d \in [n : 0..MaxEntries, rot : 0..(Len(NamePool) - 1),
             commentLength : {0, maxCommentLength}, defect : Defects,
             bad : 0..MaxEntries] : Applicable(d) }
      \cup { Descriptor(0, 0, 0, kind, 0) : kind \in RawKinds }

\* the bytes of every resource of the model
Resources ==
    [d \in Descriptors |->
        IF d.defect \in RawKinds THEN RawResource(RawBytes(d.defect))
        ELSE MkArchive(d.n, d.rot, d.commentLength, d.defect, d.bad)]

\* what the resource at the URL may be replaced with while the handle lives
ReplacementSet == { Descriptor(1, 0, 0, "none", 0), Descriptor(0, 0, 0, "rawEmpty", 0) }

(***************************************************************************)
(* The HTTP server.  A byte range first-last with first <= last that       *)
(* starts inside the resource is answered 206 with the bytes up to the end *)
(* of the resource; one that starts past the end is answered 416; a range  *)
(* whose last position is below its first is not a valid range: a server   *)
(* either ignores the header (200, the whole resource) or rejects it.      *)
(* A buffer is a view [base, len] of the resource.                         *)
(***************************************************************************)
Respond(a, ignoresBadRange, start, end) ==
    IF start > end
    THEN IF ignoresBadRange THEN [ok |-> TRUE, base |-> 0, len |-> a.size]
                            ELSE [ok |-> FALSE, base |-> 0, len |-> 0]
    ELSE IF start >= a.size
    THEN [ok |-> FALSE, base |-> 0, len |-> 0]
    ELSE [ok |-> TRUE, base |-> start, len |-> Min(end, a.size - 1) - start + 1]

\* bytes[i] of a buffer
BufByte(a, buf, i) == ByteAt(a, buf.base + i)

getUint16(a, buf, off) == BufByte(a, buf, off) + 256 * BufByte(a, buf, off + 1)

getUint32(a, buf, off) ==
    BufByte(a, buf, off) + 256 * BufByte(a, buf, off + 1)
        + 65536 * BufByte(a, buf, off + 2) + 16777216 * BufByte(a, buf, off + 3)

\* bytes.slice(from, to): clamped to the buffer
BufSlice(a, buf, from, to) ==
    LET stop == Min(to, buf.len)
    IN  [i \in 1..(IF stop > from THEN stop - from ELSE 0) |-> BufByte(a, buf, from + i - 1)]

(***************************************************************************)
(* Text.  Strings are sequences of UTF-16 code units, as in the program.   *)
(***************************************************************************)
\* number of continuation bytes a lead byte announces (0: not a lead byte)
Utf8Needed(b) ==
    IF b \in 194..223 THEN 1 ELSE IF b \in 224..239 THEN 2 ELSE IF b \in 240..244 THEN 3 ELSE 0

Utf8Lower(b) == IF b = 224 THEN 160 ELSE IF b = 240 THEN 144 ELSE 128

Utf8Upper(b) == IF b = 237 THEN 159 ELSE IF b = 244 THEN 143 ELSE 191

RECURSIVE ContRun(_, _, _, _, _)
ContRun(bs, j, left, lo, hi) ==
    IF left = 0 \/ j > Len(bs) THEN 0
    ELSE IF bs[j] \in lo..hi THEN 1 + ContRun(bs, j + 1, left - 1, 128, 191)
    ELSE 0

CodePoint(bs, i, need) ==
    CASE need = 1 -> (bs[i] - 192) * 64 + (bs[i + 1] - 128)
      [] need = 2 -> (bs[i] - 224) * 4096 + (bs[i + 1] - 128) * 64 + (bs[i + 2] - 128)
      [] need = 3 -> (bs[i] - 240) * 262144 + (bs[i + 1] - 128) * 4096
                        + (bs[i + 2] - 128) * 64 + (bs[i + 3] - 128)

CodeUnits(cp) ==
    IF cp < 65536 THEN << cp >>
    ELSE << 55296 + ((cp - 65536) \div 1024), 56320 + ((cp - 65536) % 1024) >>

RECURSIVE Utf8DecodeFrom(_, _)
Utf8DecodeFrom(bs, i) ==
    IF i > Len(bs) THEN << >>
    ELSE IF bs[i] < 128 THEN << bs[i] >> \o Utf8DecodeFrom(bs, i + 1)
    ELSE LET need == Utf8Needed(bs[i])
             run  == ContRun(bs, i + 1, need, Utf8Lower(bs[i]), Utf8Upper(bs[i]))
         IN  IF need > 0 /\ run = need
             THEN CodeUnits(CodePoint(bs, i, need)) \o Utf8DecodeFrom(bs, i + 1 + need)
             ELSE << 65533 >> \o Utf8DecodeFrom(bs, i + 1 + run)

\* new TextDecoder().decode(bytes): UTF-8, U+FFFD for malformed input, a
\* leading byte order mark dropped
TextDecode(bs) ==
    IF Len(bs) >= 3 /\ bs[1] = 239 /\ bs[2] = 187 /\ bs[3] = 191
    THEN Utf8DecodeFrom(bs, 4)
    ELSE Utf8DecodeFrom(bs, 1)

\* String.prototype.toLowerCase on the letters the model's names use
toLowerCase(s) == [i \in 1..Len(s) |-> IF s[i] \in 65..90 THEN s[i] + 32 ELSE s[i]]

endsWith(s, suffix) ==
    /\ Len(s) >= Len(suffix)
    /\ SubSeq(s, Len(s) - Len(suffix) + 1, Len(s)) = suffix

DotJpg == <<46, 106, 112, 103>>

DotJpeg == <<46, 106, 112, 101, 103>>

DotPng == <<46, 112, 110, 103>>

Slash == <<47>>

(***************************************************************************)
(* ZipReader.  Each method is an operator from the handle's state and the  *)
(* resource to its outcome: whether it returned or threw, the value        *)
(* returned, the fileSize it leaves, the HEAD requests and the range reads *)
(* it issued.  A method is written as a chain of operators, one per stage  *)
(* of its body, each stage handing its values to the next as parameters.   *)
(***************************************************************************)
\* the outcomes of the HEAD request of getFileSize
HeadOutcomes == {"ok", "httpError", "noLength"}

\* getFileSize: throws unless the response is ok and has a content-length,
\* else assigns this.fileSize and returns it
getFileSize(a, head) ==
    IF head = "ok" THEN [ok |-> TRUE, fileSize |-> a.size]
                   ELSE [ok |-> FALSE, fileSize |-> Undefined]

\* fetchRange: throws on a response that is not ok, else returns
\* response.arrayBuffer() as it is
fetchRange(a, srv, start, end) == Respond(a, srv, start, end)

\* the log entry of one range read
Request(start, end, buf) == [start |-> start, end |-> end, ok |-> buf.ok, len |-> buf.len]

EOCDSignatureAt(a, buf, i) ==
    /\ BufByte(a, buf, i) = 80
    /\ BufByte(a, buf, i + 1) = 75
    /\ BufByte(a, buf, i + 2) = 5
    /\ BufByte(a, buf, i + 3) = 6

\* parseEOCD on buffer.slice(i, i + 22), with eocd.absoluteOffset as findEOCD
\* sets it afterwards
parseEOCD(a, buf, i, absoluteOffset) ==
    [diskNumber      |-> getUint16(a, buf, i + 4),
     centralDirDisk  |-> getUint16(a, buf, i + 6),
     diskEntryCount  |-> getUint16(a, buf, i + 8),
     totalEntryCount |-> getUint16(a, buf, i + 10),
     centralDirSize  |-> getUint32(a, buf, i + 12),
     centralDirOffset |-> getUint32(a, buf, i + 16),
     commentLength   |-> getUint16(a, buf, i + 20),
     absoluteOffset  |-> absoluteOffset]

\* The positions the backward loop of findEOCD visits, i = bytes.length - 22
\* down to 0, at which the signature is found; a zero-filled position holds no
\* 0x50, so only the positions of explicit bytes are candidates.
EOCDMatches(a, buf) ==
    { i \in { p - buf.base : p \in DOMAIN a.data } :
        /\ i >= 0
        /\ i <= buf.len - EOCDSize
        /\ EOCDSignatureAt(a, buf, i) }

\* LastMatch with the loop run from the start of the window
FirstMatch(matches) == CHOOSE x \in matches : \A y \in matches : x <= y

\* the loop runs from the end: the first match it meets is the last one
LastMatch(matches) == SetMax(matches)

NoEOCD == [diskNumber |-> 0, centralDirDisk |-> 0, diskEntryCount |-> 0,
           totalEntryCount |-> 0, centralDirSize |-> 0, centralDirOffset |-> 0,
           commentLength |-> 0, absoluteOffset |-> 0]

EOCDFailure(error, fileSize, heads, log) ==
    [ok |-> FALSE, error |-> error, eocd |-> NoEOCD, fileSize |-> fileSize,
     heads |-> heads, requests |-> log]

\* findEOCD, the search loop and its result
SearchEOCD(a, buffer, matches, startPos, size, heads, log) ==
    IF matches = {}
    THEN EOCDFailure("EOCD record not found", size, heads, log)
    ELSE [ok |-> TRUE, error |-> "none",
          eocd |-> parseEOCD(a, buffer, LastMatch(matches), startPos + LastMatch(matches)),
          fileSize |-> size, heads |-> heads, requests |-> log]

\* findEOCD, after the window was fetched
ScanWindow(a, buffer, startPos, endPos, size, heads) ==
    IF ~buffer.ok
    THEN EOCDFailure("transport", size, heads, << Request(startPos, endPos, buffer) >>)
    ELSE SearchEOCD(a, buffer, EOCDMatches(a, buffer), startPos, size, heads,
                    << Request(startPos, endPos, buffer) >>)

\* const bufferSize = Math.min(maxCommentLength + 22, this.fileSize)
WindowSize(size) == Min(maxCommentLength + EOCDSize, size)

\* findEOCD, once this.fileSize is set: startPos, endPos and the range read
FetchWindow(a, srv, size, heads) ==
    ScanWindow(a, fetchRange(a, srv, size - WindowSize(size), size - 1),
               size - WindowSize(size), size - 1, size, heads)

\* NeedsSizeQuery without the test of this.fileSize
AlwaysQueriesSize(fileSize) == TRUE

\* whether findEOCD queries the size first: if (!this.fileSize)
NeedsSizeQuery(fileSize) == fileSize = 0

\* findEOCD, after the size query (sized) if one was needed
AfterSizeQuery(a, srv, fileSize, sized, heads) ==
    IF ~sized.ok THEN EOCDFailure("head", fileSize, heads, << >>)
    ELSE FetchWindow(a, srv, sized.fileSize, heads)

findEOCD(a, srv, fileSize, head) ==
    IF NeedsSizeQuery(fileSize)
    THEN AfterSizeQuery(a, srv, fileSize, getFileSize(a, head), 1)
    ELSE AfterSizeQuery(a, srv, fileSize, [ok |-> TRUE, fileSize |-> fileSize], 0)

CentralSignatureAt(a, buf, offset) == getUint32(a, buf, offset) = 33639248

IsImageName(fileName) ==
    \/ endsWith(fileName, DotJpg)
    \/ endsWith(fileName, DotJpeg)
    \/ endsWith(fileName, DotPng)

\* the object parseCentralDirEntry returns; dataOffset, fileNameLength and
\* extraFieldLength are not set on it
NewEntry(fileName, compressedSize, uncompressedSize, localHeaderOffset) ==
    [fileName |-> fileName,
     compressedSize |-> compressedSize,
     uncompressedSize |-> uncompressedSize,
     localHeaderOffset |-> localHeaderOffset,
     isDirectory |-> endsWith(fileName, Slash),
     isImage |-> ~endsWith(fileName, Slash) /\ IsImageName(toLowerCase(fileName)),
     fileNameLength |-> Undefined,
     extraFieldLength |-> Undefined,
     dataOffset |-> Undefined]

\* parseCentralDirEntry, after the three length fields were read
ParsedEntry(a, buf, offset, fileNameLength, extraFieldLength, commentLength) ==
    [ok |-> TRUE, error |-> "none",
     entry |-> NewEntry(TextDecode(BufSlice(a, buf, offset + CentralHeaderSize,
                                            offset + CentralHeaderSize + fileNameLength)),
                        getUint32(a, buf, offset + 20),
                        getUint32(a, buf, offset + 24),
                        getUint32(a, buf, offset + 42)),
     nextOffset |-> offset + CentralHeaderSize + fileNameLength + extraFieldLength
                        + commentLength]

\* parseCentralDirEntry(buffer, offset): a DataView read past the end of the
\* buffer throws a RangeError, a wrong signature throws an Error
parseCentralDirEntry(a, buf, offset) ==
    IF offset + 4 > buf.len THEN [ok |-> FALSE, error |-> "range"]
    ELSE IF ~CentralSignatureAt(a, buf, offset) THEN [ok |-> FALSE, error |-> "signature"]
    ELSE IF offset + CentralHeaderSize > buf.len THEN [ok |-> FALSE, error |-> "range"]
    ELSE ParsedEntry(a, buf, offset, getUint16(a, buf, offset + 28),
                     getUint16(a, buf, offset + 30), getUint16(a, buf, offset + 32))

\* CatchBreak that drops the entries pushed before the failure
CatchDiscard(pushed, error) == [entries |-> << >>, stopped |-> error]

\* the catch block of the loop: log, break; the entries pushed so far stay
CatchBreak(pushed, error) == [entries |-> pushed, stopped |-> error]

\* the loop of readCentralDirectory, at entry i and offset, with the entries
\* pushed so far
RECURSIVE DecodeEntries(_, _, _, _, _, _)
DecodeStep(a, buf, i, totalEntryCount, pushed, parsed) ==
    IF ~parsed.ok THEN CatchBreak(pushed, parsed.error)
    ELSE DecodeEntries(a, buf, parsed.nextOffset, i + 1, totalEntryCount,
                       Append(pushed, parsed.entry))

DecodeEntries(a, buf, offset, i, totalEntryCount, pushed) ==
    IF i >= totalEntryCount THEN [entries |-> pushed, stopped |-> "none"]
    ELSE DecodeStep(a, buf, i, totalEntryCount, pushed, parseCentralDirEntry(a, buf, offset))

DirectoryResult(ok, decoded, log) ==
    [ok |-> ok, error |-> IF ok THEN "none" ELSE "transport",
     entries |-> decoded.entries, stopped |-> decoded.stopped, requests |-> log]

\* readCentralDirectory, after the directory bytes were fetched
DecodeDirectory(a, buffer, centralDirStart, centralDirEnd, totalEntryCount) ==
    IF ~buffer.ok
    THEN DirectoryResult(FALSE, [entries |-> << >>, stopped |-> "none"],
                         << Request(centralDirStart, centralDirEnd, buffer) >>)
    ELSE DirectoryResult(TRUE, DecodeEntries(a, buffer, 0, 0, totalEntryCount, << >>),
                         << Request(centralDirStart, centralDirEnd, buffer) >>)

readCentralDirectory(a, srv, eocd) ==
    DecodeDirectory(a,
                    fetchRange(a, srv, eocd.centralDirOffset,
                               eocd.centralDirOffset + eocd.centralDirSize - 1),
                    eocd.centralDirOffset,
                    eocd.centralDirOffset + eocd.centralDirSize - 1,
                    eocd.totalEntryCount)

\* calculateFileDataOffset that starts from the data offset the entry already
\* has instead of its local header offset
calculateFromDataOffset(entry) ==
    [entry EXCEPT !.dataOffset = (IF entry.dataOffset = Undefined
                                  THEN entry.localHeaderOffset ELSE entry.dataOffset)
                                     + headerSize + Len(entry.fileName) + 0,
                  !.fileNameLength = Len(entry.fileName),
                  !.extraFieldLength = 0]

\* calculateFileDataOffset: no I/O, the catch branch is never taken;
\* fileNameLength = entry.fileName.length, extraFieldLength = 0
calculateFileDataOffset(entry) ==
    [entry EXCEPT !.dataOffset = entry.localHeaderOffset + headerSize + Len(entry.fileName) + 0,
                  !.fileNameLength = Len(entry.fileName),
                  !.extraFieldLength = 0]

\* the callback of entries.map in readTableOfContents
ProcessEntry(entry) == IF entry.isDirectory THEN entry ELSE calculateFileDataOffset(entry)

\* Promise.all over entries.map: the results in the order of the entries
ProcessEntries(list) == [i \in 1..Len(list) |-> ProcessEntry(list[i])]

\* readTableOfContents, after readCentralDirectory
Listing(found, dir) ==
    [ok |-> dir.ok, error |-> dir.error,
     entries |-> IF dir.ok THEN ProcessEntries(dir.entries) ELSE << >>,
     stopped |-> dir.stopped, eocd |-> found.eocd,
     fileSize |-> found.fileSize, heads |-> found.heads,
     requests |-> found.requests \o dir.requests]

\* readTableOfContents, after findEOCD
AfterEOCD(a, srv, found) ==
    IF ~found.ok
    THEN [ok |-> FALSE, error |-> found.error, entries |-> << >>, stopped |-> "none",
          eocd |-> NoEOCD, fileSize |-> found.fileSize, heads |-> found.heads,
          requests |-> found.requests]
    ELSE Listing(found, readCentralDirectory(a, srv, found.eocd))

readTableOfContents(a, srv, fileSize, head) == AfterEOCD(a, srv, findEOCD(a, srv, fileSize, head))

\* if (!entry.dataOffset): undefined and 0 are both falsy
NeedsResolution(entry) == entry.dataOffset = Undefined \/ entry.dataOffset = 0

BlobType(fileName) ==
    IF endsWith(fileName, DotPng) THEN "image/png"
    ELSE IF endsWith(fileName, DotJpg) \/ endsWith(fileName, DotJpeg) THEN "image/jpeg"
    ELSE ""

\* extractFile, after the range read
Extracted(resolved, start, end, buffer) ==
    [ok |-> buffer.ok, error |-> IF buffer.ok THEN "none" ELSE "transport",
     entry |-> resolved,
     blob |-> [size |-> IF buffer.ok THEN buffer.len ELSE Undefined,
               type |-> IF buffer.ok THEN BlobType(toLowerCase(resolved.fileName)) ELSE ""],
     requests |-> << Request(start, end, buffer) >>]

\* extractFile, once the entry is resolved: the range read of its data
FetchData(a, srv, resolved) ==
    Extracted(resolved, resolved.dataOffset,
              resolved.dataOffset + resolved.compressedSize - 1,
              fetchRange(a, srv, resolved.dataOffset,
                         resolved.dataOffset + resolved.compressedSize - 1))

\* extractFile: the entry is resolved in place before the read, so it stays
\* resolved when the read throws
extractFile(a, srv, entry) ==
    IF NeedsResolution(entry) THEN FetchData(a, srv, calculateFileDataOffset(entry))
    ELSE FetchData(a, srv, entry)

(***************************************************************************)
(* The state: the resource behind the URL, the handle (fileSize), the      *)
(* entry list the caller holds, and the record of the last call.           *)
(***************************************************************************)
VARIABLES
    remote,      \* the resource at this.url, by its descriptor
    srv,         \* whether the server ignores (TRUE) or rejects an invalid range
    changed,     \* whether the resource was replaced since the start
    fileSize,    \* this.fileSize
    firstSize,   \* the length the first successful size query fetched, else Undefined
    entries,     \* the list the last successful readTableOfContents returned
    lastOp,      \* the last call
    lastError,   \* "none", or why the last call threw
    stopped,     \* why the decode loop of the last listing ended early, else "none"
    eocd,        \* the record findEOCD returned in the last listing
    requests,    \* the range reads the last call issued, in order
    heads,       \* the HEAD requests the last call issued
    blob,        \* the Blob the last extractFile returned
    target       \* the position in entries the last call was given

vars == << remote, srv, changed, fileSize, firstSize, entries, lastOp, lastError, stopped,
           eocd, requests, heads, blob, target >>

NoBlob == [size |-> Undefined, type |-> ""]

Init ==
    /\ remote \in Descriptors
    /\ srv \in BOOLEAN
    /\ changed = FALSE
    /\ fileSize = InitialFileSize
    /\ firstSize = Undefined
    /\ entries = << >>
    /\ lastOp = "constructor"
    /\ lastError = "none"
    /\ stopped = "none"
    /\ eocd = NoEOCD
    /\ requests = << >>
    /\ heads = 0
    /\ blob = NoBlob
    /\ target = 0

FirstFetched(size) == IF firstSize = Undefined THEN size ELSE firstSize

\* the state after getFileSize with outcome r
SizeQueried(r) ==
    /\ fileSize' = IF r.ok THEN r.fileSize ELSE fileSize
    /\ firstSize' = IF r.ok THEN FirstFetched(r.fileSize) ELSE firstSize
    /\ lastOp' = "getFileSize"
    /\ lastError' = IF r.ok THEN "none" ELSE "head"
    /\ heads' = 1
    /\ requests' = << >>
    /\ stopped' = "none"
    /\ eocd' = NoEOCD
    /\ blob' = NoBlob
    /\ target' = 0
    /\ UNCHANGED << remote, srv, changed, entries >>

\* await reader.getFileSize()
GetFileSize == \E head \in HeadOutcomes : SizeQueried(getFileSize(Resources[remote], head))

\* the state after readTableOfContents with outcome r
Listed(r) ==
    /\ fileSize' = r.fileSize
    /\ firstSize' = IF r.heads = 1 /\ r.error # "head"
                    THEN FirstFetched(r.fileSize) ELSE firstSize
    /\ entries' = IF r.ok THEN r.entries ELSE entries
    /\ lastOp' = "readTableOfContents"
    /\ lastError' = r.error
    /\ heads' = r.heads
    /\ requests' = r.requests
    /\ stopped' = r.stopped
    /\ eocd' = r.eocd
    /\ blob' = NoBlob
    /\ target' = 0
    /\ UNCHANGED << remote, srv, changed >>

\* entries = await reader.readTableOfContents()
ReadTableOfContents ==
    \E head \in HeadOutcomes :
        Listed(readTableOfContents(Resources[remote], srv, fileSize, head))

\* the state after extractFile(entries[i]) with outcome r
ExtractedAt(i, r) ==
    /\ entries' = [entries EXCEPT ![i] = r.entry]
    /\ lastOp' = "extractFile"
    /\ lastError' = r.error
    /\ heads' = 0
    /\ requests' = r.requests
    /\ stopped' = "none"
    /\ eocd' = NoEOCD
    /\ blob' = r.blob
    /\ target' = i
    /\ UNCHANGED << remote, srv, changed, fileSize, firstSize >>

\* await reader.extractFile(entries[i])
ExtractFile ==
    \E i \in 1..Len(entries) : ExtractedAt(i, extractFile(Resources[remote], srv, entries[i]))

\* calculateFileDataOffset(entries[i]) once more, on an entry of the kind the
\* listing passes to it
CalculateFileDataOffset ==
    \E i \in 1..Len(entries) :
        /\ ~entries[i].isDirectory
        /\ entries' = [entries EXCEPT ![i] = calculateFileDataOffset(entries[i])]
        /\ lastOp' = "calculateFileDataOffset"
        /\ lastError' = "none"
        /\ heads' = 0
        /\ requests' = << >>
        /\ stopped' = "none"
        /\ eocd' = NoEOCD
        /\ blob' = NoBlob
        /\ target' = i
        /\ UNCHANGED << remote, srv, changed, fileSize, firstSize >>

\* the resource behind the URL is replaced, once
RemoteChanges ==
    /\ ~changed
    /\ remote' \in ReplacementSet \ {remote}
    /\ changed' = TRUE
    /\ lastOp' = "remoteChanges"
    /\ lastError' = "none"
    /\ heads' = 0
    /\ requests' = << >>
    /\ stopped' = "none"
    /\ eocd' = NoEOCD
    /\ blob' = NoBlob
    /\ target' = 0
    /\ UNCHANGED << srv, fileSize, firstSize, entries >>

Next ==
    \/ GetFileSize
    \/ ReadTableOfContents
    \/ ExtractFile
    \/ CalculateFileDataOffset
    \/ RemoteChanges

Spec == Init /\ [][Next]_vars

(***************************************************************************)
(* Properties.                                                             *)
(***************************************************************************)
\* the bytes of the resource behind the URL, and how it was built
Remote == Resources[remote]

\* the range reads of the last call, as a set
Issued == { requests[i] : i \in 1..Len(requests) }

\* entry e is the i-th Central Directory entry of archive a
IsMember(a, i, e) ==
    /\ e.fileName = TextDecode(a.members[i].name)
    /\ e.compressedSize = a.members[i].csize
    /\ e.uncompressedSize = a.members[i].csize
    /\ e.localHeaderOffset = a.lho[i]

\* the first n entries of the list are the first n Central Directory entries
FirstMembers(a, list, n) ==
    /\ Len(list) = n
    /\ \A i \in 1..n : IsMember(a, i, list[i])

\* the number of bytes of the UTF-8 encoding of a string
RECURSIVE Utf8ByteLength(_)
Utf8ByteLength(s) ==
    IF s = << >> THEN 0
    ELSE IF s[1] < 128 THEN 1 + Utf8ByteLength(Tail(s))
    ELSE IF s[1] < 2048 THEN 2 + Utf8ByteLength(Tail(s))
    ELSE IF s[1] \in 55296..56319 /\ Len(s) >= 2 /\ s[2] \in 56320..57343
         THEN 4 + Utf8ByteLength(Tail(Tail(s)))
    ELSE 3 + Utf8ByteLength(Tail(s))

ValidRange(r, size) == 0 <= r.start /\ r.start <= r.end /\ r.end <= size - 1

\* C1: a listing of a well-formed archive of N >= 0 entries with an EOCD
\* comment of 0 or 65535 bytes returns the N entries in Central Directory
\* order and issues at most two range reads, each a valid range of the archive.
C1_ListsWellFormedArchive ==
    (/\ lastOp = "readTableOfContents"
     /\ remote.defect = "none"
     /\ ~changed
     /\ lastError # "head")
    => /\ lastError = "none"
       /\ FirstMembers(Remote, entries, Len(Remote.members))
       /\ Len(requests) <= 2
       /\ \A r \in Issued : ValidRange(r, Remote.size)

\* C2: when the k-th Central Directory entry fails its signature check and the
\* entries before it are valid, the listing returns, with exactly the first
\* k-1 entries in Central Directory order.
C2_PartialListing ==
    (/\ lastOp = "readTableOfContents"
     /\ remote.bad >= 1
     /\ lastError # "head")
    => /\ lastError = "none"
       /\ stopped = "signature"
       /\ FirstMembers(Remote, entries, remote.bad - 1)

\* a listing stopped at a corrupted entry that has valid entries before it
C2_Witness ==
    /\ lastOp = "readTableOfContents"
    /\ remote.bad >= 2
    /\ lastError = "none"
    /\ stopped = "signature"
    /\ Len(entries) = remote.bad - 1

\* C3: a buffer fetchRange(start, end) returns has exactly end - start + 1
\* bytes; a response with fewer bytes makes it throw.
C3_ExactLength ==
    \A r \in Issued : (r.ok /\ r.start <= r.end) => r.len = r.end - r.start + 1

\* C4: the data offset of a resolved non-directory entry is its local header
\* offset + 30 + the number of UTF-8 bytes of its name.
C4_ByteLengthOffset ==
    \A i \in 1..Len(entries) :
        (~entries[i].isDirectory /\ entries[i].dataOffset # Undefined)
        => entries[i].dataOffset
             = entries[i].localHeaderOffset + 30 + Utf8ByteLength(entries[i].fileName)

\* C5: extractFile on a resolved entry issues exactly one range read, of
\* [dataOffset, dataOffset + compressedSize - 1], and returns content of
\* compressedSize bytes, for every compressed size including 0.
C5_ExtractLength ==
    (/\ lastOp = "extractFile"
     /\ remote.defect = "none"
     /\ ~changed
     /\ ~entries[target].isDirectory)
    => /\ Len(requests) = 1
       /\ requests[1].start = entries[target].dataOffset
       /\ requests[1].end = entries[target].dataOffset + entries[target].compressedSize - 1
       /\ lastError = "none"
       /\ blob.size = entries[target].compressedSize

C7_ResolutionIdempotent ==
    [][ \A i \in 1..Len(entries) :
          (target' = i /\ entries[i].dataOffset # Undefined)
          => /\ lastOp' = "calculateFileDataOffset"
                  => entries'[i].dataOffset = entries[i].dataOffset
             /\ lastOp' = "extractFile" => entries'[i] = entries[i] ]_vars

\* an entry the listing resolved was resolved once more
C7_Witness ==
    /\ lastOp = "calculateFileDataOffset"
    /\ target \in 1..Len(entries)
    /\ entries[target].dataOffset = entries[target].localHeaderOffset + 30
                                        + Len(entries[target].fileName)

SignatureAt(a, p) ==
    /\ ByteAt(a, p) = 80
    /\ ByteAt(a, p + 1) = 75
    /\ ByteAt(a, p + 2) = 5
    /\ ByteAt(a, p + 3) = 6

\* the positions of the last min(65557, size) bytes of the archive where the
\* four signature bytes occur with at least room bytes up to the end
SignaturesInWindow(a, size, room) ==
    { p \in DOMAIN a.data :
        /\ p >= size - Min(65557, size)
        /\ p + room <= size
        /\ SignatureAt(a, p) }

\* the last listing read its window from a resource of the cached length
WindowRead ==
    /\ lastOp = "readTableOfContents"
    /\ lastError # "head"
    /\ fileSize = Remote.size
    /\ Len(requests) >= 1
    /\ requests[1].ok

\* findEOCD read the last min(65557, fileSize) bytes and returned the record
\* at the highest signature position that leaves room bytes up to the end,
\* failing with 'EOCD record not found' exactly when there is none
FindsLastSignature(room) ==
    WindowRead
    => /\ requests[1].start = fileSize - Min(65557, fileSize)
       /\ requests[1].end = fileSize - 1
       /\ (lastError = "EOCD record not found")
             <=> (SignaturesInWindow(Remote, fileSize, room) = {})
       /\ SignaturesInWindow(Remote, fileSize, room) # {}
             => eocd.absoluteOffset = SetMax(SignaturesInWindow(Remote, fileSize, room))

\* C8 as stated: the record at the highest position of the window where the
\* four signature bytes occur, not found exactly when they occur nowhere in
\* the window.
C8_HighestSignature == FindsLastSignature(4)

\* C8 as amended: the highest position of the window that leaves room for a
\* whole 22-byte record; a signature in the last 21 bytes is not looked at.
C8_HighestWholeRecord == FindsLastSignature(22)

\* the signature bytes sit in the last 21 bytes of the comment and the
\* record before the comment is the one returned
C8_Witness ==
    /\ WindowRead
    /\ remote.defect = "forgedLate"
    /\ lastError = "none"
    /\ eocd.absoluteOffset = Remote.eocdAt

\* C9: a directory entry never has a data offset.
C9_DirectoryUnresolved ==
    \A i \in 1..Len(entries) : entries[i].isDirectory => entries[i].dataOffset = Undefined

\* C10: every range read asks for [start, end] with
\* 0 <= start <= end <= fileSize - 1 (stated here for the well-formed
\* archives alone, which the claim covers with every other).
C10_RangesWithinSize ==
    (remote.defect = "none" /\ ~changed) => \A r \in Issued : ValidRange(r, fileSize)

====
